---------------------------- MODULE Spec2Model ----------------------------
(***************************************************************************)
(* A model of buffer-optimize: the pass-through command buffer (buffer.c), *)
(* the two-family aggregation hash (cmdhash.c) and the driver              *)
(* (buffer-optimize.c).  Byte strings are sequences of byte values; a      *)
(* string handed over by the reply parser carries its length and is        *)
(* followed by a terminating zero byte, as hiredis stores it.              *)
(***************************************************************************)
EXTENDS Integers, Sequences, FiniteSets, TLC

(***************************************************************************)
(* Bounds of the model.                                                    *)
(***************************************************************************)
\* Replies read from the input in one run.
MaxCmds == 3
\* Allocations that may fail in one run (malloc/calloc/realloc/strndup
\* returning NULL).
MaxFail == 1

(***************************************************************************)
(* Program constants.                                                      *)
(***************************************************************************)
INITIAL_ALLOC == 32768
BUF_INIT_ALLOC == 32768
BUF_MAX_PREALLOC == 1024 * 1024
KHASH_SIZE == 22016
MHASH_SIZE == 512
TYPE_ZINCRBY == 0
TYPE_SADD == 1
TYPE_UNSUPPORTED == 2

(***************************************************************************)
(* Bytes and C strings.                                                    *)
(***************************************************************************)
\* A NULL char pointer (a calloc'ed node whose string was never copied).
NULLp == << -1 >>

\* The byte a C string read finds at 1-based position i of a parser string:
\* its own bytes, then the terminating zero.
CAt(s, i) == IF i <= Len(s) THEN s[i] ELSE 0

tolower(c) == IF c >= 65 /\ c <= 90 THEN c + 32 ELSE c

\* Length of s as strnlen(s, n) sees it: up to the first zero byte.
RECURSIVE strnlen(_, _)
strnlen(s, n) ==
    IF n = 0 \/ s = << >> \/ s[1] = 0 THEN 0
    ELSE 1 + strnlen(Tail(s), n - 1)

\* strndup(s, n): a fresh copy of the first strnlen(s, n) bytes.
strndup(s, n) == SubSeq(s, 1, strnlen(s, n))

\* strncmp(a, b, n) == 0.  The comparison stops at the first difference, at
\* a zero byte, or after n bytes; with n = 0 no byte is read at all.
RECURSIVE strncmp_from(_, _, _, _)
strncmp_from(a, b, n, i) ==
    IF i > n THEN TRUE
    ELSE IF CAt(a, i) # CAt(b, i) THEN FALSE
    ELSE IF CAt(a, i) = 0 THEN TRUE
    ELSE strncmp_from(a, b, n, i + 1)

strncmp_eq(a, b, n) == strncmp_from(a, b, n, 1)

\* strncasecmp(a, b, n) == 0.
RECURSIVE strncasecmp_from(_, _, _, _)
strncasecmp_from(a, b, n, i) ==
    IF i > n THEN TRUE
    ELSE IF tolower(CAt(a, i)) # tolower(CAt(b, i)) THEN FALSE
    ELSE IF CAt(a, i) = 0 THEN TRUE
    ELSE strncasecmp_from(a, b, n, i + 1)

strncasecmp_eq(a, b, n) == strncasecmp_from(a, b, n, 1)

\* "ZINCRBY" and "SADD" as bytes; sizeof of the literals counts the zero.
ZINCRBY_STR == << 90, 73, 78, 67, 82, 66, 89 >>
SADD_STR == << 83, 65, 68, 68 >>

(***************************************************************************)
(* djb2 and GET_BUCKET.  The hash is an unsigned long narrowed to int by   *)
(* the return and converted to unsigned by the % with an unsigned size, so *)
(* the bucket is (hash mod 2^32) mod size.  The 32-bit value is kept as    *)
(* two 16-bit halves << hi, lo >>.                                         *)
(***************************************************************************)
Half == 2 ^ 16

RECURSIVE djb2_from(_, _, _, _)
djb2_from(str, len, i, h) ==
    IF i > len THEN h
    ELSE LET lo == h[2] * 33 + CAt(str, i)
             hi == h[1] * 33 + (lo \div Half)
         IN  djb2_from(str, len, i + 1, << hi % Half, lo % Half >>)

\* 5381 = 0 * 65536 + 5381
djb2(str, len) == djb2_from(str, len, 1, << 0, 5381 >>)

GET_BUCKET(str, len, size) ==
    LET h == djb2(str, len)
    IN  (((h[1] % size) * (Half % size)) + h[2]) % size

(***************************************************************************)
(* The member entry's union { double score; unsigned int hits; }           *)
(* (cmdhash.h).  Both fields are views of one storage cell: hits is one    *)
(* half of the bytes of score.  The cell is modelled as an IEEE-754 binary *)
(* floating-point bit pattern with every width scaled by four (binary16    *)
(* for the 64-bit double: 1 sign bit, 5 exponent bits, 10 fraction bits;   *)
(* 8 bits for the 32-bit unsigned hits), so that the exact arithmetic      *)
(* stays inside TLC's integers.  Which half hits overlays is the byte      *)
(* order of the build: the low half (little-endian) or the high half       *)
(* (big-endian).                                                           *)
(***************************************************************************)
FracMod == 2 ^ 10
ExpMod == 2 ^ 5
HitsMod == 2 ^ 8
ExpBias == (ExpMod \div 2) - 1
\* 1.0 counted in units of the smallest subnormal: 2^(bias - 1 + fraction bits)
CellOne == FracMod * (2 ^ (ExpBias - 1))

CellSign(b) == b \div (ExpMod * FracMod)
CellExp(b) == (b \div FracMod) % ExpMod
CellFrac(b) == b % FracMod

\* The magnitude of a finite pattern, in units of the smallest subnormal.
CellMag(b) ==
    IF CellExp(b) = 0 THEN CellFrac(b)
    ELSE (FracMod + CellFrac(b)) * (2 ^ (CellExp(b) - 1))

CellVal(b) == IF CellSign(b) = 1 THEN 0 - CellMag(b) ELSE CellMag(b)

\* Number of low bits a magnitude loses when it is normalised.
RECURSIVE CellShift(_)
CellShift(m) == IF m < 2 * FracMod THEN 0 ELSE 1 + CellShift(m \div 2)

\* The pattern of sign s and magnitude m, rounded to nearest, ties to even.
CellPack(s, m) ==
    IF m < FracMod THEN s * ExpMod * FracMod + m
    ELSE LET k == CellShift(m)
             q == m \div (2 ^ k)
             r == m % (2 ^ k)
             up == (2 * r > 2 ^ k) \/ (2 * r = 2 ^ k /\ q % 2 = 1)
             q1 == IF up THEN q + 1 ELSE q
             k1 == IF q1 = 2 * FracMod THEN k + 1 ELSE k
             q2 == IF q1 = 2 * FracMod THEN FracMod ELSE q1
         IN  IF k1 + 1 >= ExpMod - 1
             THEN s * ExpMod * FracMod + (ExpMod - 1) * FracMod
             ELSE s * ExpMod * FracMod + (k1 + 1) * FracMod + (q2 - FracMod)

\* score + d in the cell's arithmetic (both finite).
CellAdd(a, b) ==
    LET v == CellVal(a) + CellVal(b)
    IN  IF v = 0
        THEN (IF CellSign(a) = 1 /\ CellSign(b) = 1 THEN ExpMod * FracMod ELSE 0)
        ELSE IF v < 0 THEN CellPack(1, 0 - v) ELSE CellPack(0, v)

\* The hits view of the cell, and the cell after hits++ (unsigned wrap).
CellHits(b, endian) ==
    IF endian = "little" THEN b % HitsMod ELSE b \div HitsMod

HitsInc(b, endian) ==
    IF endian = "little"
    THEN ((b \div HitsMod) * HitsMod) + (((b % HitsMod) + 1) % HitsMod)
    ELSE ((((b \div HitsMod) + 1) % HitsMod) * HitsMod) + (b % HitsMod)

(***************************************************************************)
(* strtod(str, NULL) on the decimal integers the model feeds it: optional  *)
(* sign, then digits; the conversion stops at the first other byte, and a  *)
(* string with no digits converts to 0.0 with no error reported.           *)
(***************************************************************************)
IsDigit(c) == c >= 48 /\ c <= 57

RECURSIVE strtod_digits(_, _, _)
strtod_digits(s, i, acc) ==
    IF IsDigit(CAt(s, i)) THEN strtod_digits(s, i + 1, acc * 10 + (CAt(s, i) - 48))
    ELSE acc

strtod(s) ==
    LET neg == CAt(s, 1) = 45
        start == IF CAt(s, 1) = 45 \/ CAt(s, 1) = 43 THEN 2 ELSE 1
    IN  IF ~IsDigit(CAt(s, start)) THEN 0
        ELSE CellPack(IF neg THEN 1 ELSE 0, strtod_digits(s, start, 0) * CellOne)

(***************************************************************************)
(* printf's "%f" of the cell: sign, integer part, '.', six decimals,       *)
(* rounded to nearest (ties to even) from the exact binary value.          *)
(***************************************************************************)
RECURSIVE DecDigits(_)
DecDigits(n) == IF n < 10 THEN << 48 + n >> ELSE Append(DecDigits(n \div 10), 48 + (n % 10))

\* The first n decimals of x / CellOne (x < CellOne) as an integer, and the rest.
RECURSIVE FracDecimals(_, _, _)
FracDecimals(x, n, acc) ==
    IF n = 0 THEN << acc, x >>
    ELSE FracDecimals((x * 10) % CellOne, n - 1, acc * 10 + ((x * 10) \div CellOne))

RECURSIVE PadDigits(_, _)
PadDigits(ds, n) == IF Len(ds) >= n THEN ds ELSE PadDigits(<< 48 >> \o ds, n)

FormatF(b) ==
    LET m == CellMag(b)
        fd == FracDecimals(m % CellOne, 6, 0)
        micro == (m \div CellOne) * 1000000 + fd[1]
        up == (2 * fd[2] > CellOne) \/ (2 * fd[2] = CellOne /\ micro % 2 = 1)
        mu == IF up THEN micro + 1 ELSE micro
    IN  (IF CellSign(b) = 1 THEN << 45 >> ELSE << >>)
        \o DecDigits(mu \div 1000000) \o << 46 >>
        \o PadDigits(DecDigits(mu % 1000000), 6)

(***************************************************************************)
(* The aggregation hash (cmdhash.h).  A bucket array is kept sparsely: a   *)
(* function from the indices of its non-NULL slots to their chains, a      *)
(* chain being the sequence of nodes from the head along the next          *)
(* pointers.                                                               *)
(*   member node: member (copy or NULLp), len, cell (the score/hits union) *)
(*   key node: key (copy or NULLp), len, count, btab (bucket != NULL),     *)
(*             bucket (the member table), freed (the node was free()d but  *)
(*             is still linked)                                            *)
(*   container: ksize, msize, keys, members, str_len, bucket               *)
(***************************************************************************)
ChainAt(tab, i) == IF i \in DOMAIN tab THEN tab[i] ELSE << >>

SetChain(tab, i, chain) == (i :> chain) @@ tab

\* calloc(1, sizeof(cmdMemberList)) and calloc(1, sizeof(cmdKeyList))
ZeroMember == [member |-> NULLp, len |-> 0, cell |-> 0]

ZeroKey ==
    [key |-> NULLp, len |-> 0, count |-> 0, btab |-> FALSE, bucket |-> << >>,
     freed |-> FALSE]

container_create(ksize, msize) ==
    [ksize |-> ksize, msize |-> msize, keys |-> 0, members |-> 0, str_len |-> 0,
     bucket |-> << >>]

cmdHashCreate(ksize, msize) ==
    [s_cmds |-> container_create(ksize, msize),
     z_cmds |-> container_create(ksize, msize),
     buf |-> FALSE, size |-> 0, len |-> 0, cmds |-> << >>]

\* Index of the first node of a key chain the scan of __find_key accepts
\* (0: none).
RECURSIVE ScanKeys(_, _, _, _)
ScanKeys(chain, key, len, i) ==
    IF i > Len(chain) THEN 0
    ELSE IF chain[i].len = len /\ strncmp_eq(chain[i].key, key, len) THEN i
    ELSE ScanKeys(chain, key, len, i + 1)

\* Index of the first node of a member chain the scan of __find_member
\* accepts (0: none).
RECURSIVE ScanMembers(_, _, _, _)
ScanMembers(chain, member, len, i) ==
    IF i > Len(chain) THEN 0
    ELSE IF len = chain[i].len /\ strncmp_eq(member, chain[i].member, len) THEN i
    ELSE ScanMembers(chain, member, len, i + 1)

(***************************************************************************)
(* __find_key.  n counts the allocations the enclosing cmdHashAdd call has *)
(* attempted; the allocation numbered failAt returns NULL (0: none does).  *)
(* The result holds the container afterwards, whether a node was returned  *)
(* (ok) and where it is (num, idx), n afterwards, and whether the scan     *)
(* read a node that had been freed (uaf).  When the key copy fails the     *)
(* node is freed but stays linked from the bucket or from the old tail.    *)
(***************************************************************************)
find_key(c, key, len, n, failAt) ==
    LET num == GET_BUCKET(key, len, c.ksize)
        chain == ChainAt(c.bucket, num)
        hit == ScanKeys(chain, key, len, 1)
        seen == IF hit = 0 THEN Len(chain) ELSE hit
        uaf == \E i \in 1..seen : chain[i].freed
        none == [c |-> c, ok |-> FALSE, num |-> num, idx |-> 0, n |-> n + 1, uaf |-> uaf]
    IN  IF chain # << >> /\ hit # 0
        THEN [c |-> c, ok |-> TRUE, num |-> num, idx |-> hit, n |-> n, uaf |-> uaf]
        ELSE IF n + 1 = failAt
        THEN none
        ELSE IF n + 2 = failAt
        THEN [none EXCEPT
                 !.c = [c EXCEPT !.bucket = SetChain(c.bucket, num,
                            Append(chain, [ZeroKey EXCEPT !.freed = TRUE]))],
                 !.n = n + 2]
        ELSE [c |-> [c EXCEPT
                        !.bucket = SetChain(c.bucket, num,
                            Append(chain, [ZeroKey EXCEPT !.key = strndup(key, len),
                                                          !.len = len])),
                        !.keys = c.keys + 1],
              ok |-> TRUE, num |-> num, idx |-> Len(chain) + 1, n |-> n + 2,
              uaf |-> uaf]

(***************************************************************************)
(* __find_member on the key node at (knum, kidx) of container c.  A member *)
(* that is found has its hits incremented, in either container.  A failed  *)
(* node allocation leaves the member table allocated; a failed member copy *)
(* leaves the zeroed node linked and the counters untouched.               *)
(***************************************************************************)
find_member(c, knum, kidx, member, len, n, failAt, endian) ==
    LET key == c.bucket[knum][kidx]
        num == GET_BUCKET(member, len, c.msize)
        n1 == IF key.btab THEN n ELSE n + 1
        chain == ChainAt(key.bucket, num)
        hit == ScanMembers(chain, member, len, 1)
        WithKey(k) == [c EXCEPT !.bucket[knum][kidx] = k]
        tabbed == [key EXCEPT !.btab = TRUE]
    IN  IF ~key.btab /\ n1 = failAt
        THEN [c |-> c, ok |-> FALSE, num |-> num, idx |-> 0, n |-> n1]
        ELSE IF chain # << >> /\ hit # 0
        THEN [c |-> WithKey([tabbed EXCEPT
                        !.bucket[num][hit].cell = HitsInc(chain[hit].cell, endian)]),
              ok |-> TRUE, num |-> num, idx |-> hit, n |-> n1]
        ELSE IF n1 + 1 = failAt
        THEN [c |-> WithKey(tabbed), ok |-> FALSE, num |-> num, idx |-> 0, n |-> n1 + 1]
        ELSE IF n1 + 2 = failAt
        THEN [c |-> WithKey([tabbed EXCEPT
                        !.bucket = SetChain(key.bucket, num, Append(chain, ZeroMember))]),
              ok |-> FALSE, num |-> num, idx |-> 0, n |-> n1 + 2]
        ELSE [c |-> [WithKey([tabbed EXCEPT
                        !.bucket = SetChain(key.bucket, num,
                            Append(chain, [ZeroMember EXCEPT
                                              !.member = strndup(member, len),
                                              !.len = len])),
                        !.count = key.count + 1])
                     EXCEPT !.str_len = c.str_len + len,
                            !.members = c.members + 1],
              ok |-> TRUE, num |-> num, idx |-> Len(chain) + 1, n |-> n1 + 2]

(***************************************************************************)
(* Parsed replies (hiredis redisReply).  A command is an array reply: its  *)
(* integer field is 0 and element holds the parsed elements, each a string *)
(* (str, len) or an integer (integer; str is NULL and len 0).  Elem takes  *)
(* the C index.                                                            *)
(***************************************************************************)
StrElem(bytes) == [type |-> "string", str |-> bytes, len |-> Len(bytes), integer |-> 0]

IntElem(v) == [type |-> "integer", str |-> NULLp, len |-> 0, integer |-> v]

ArrayReply(elems) == [type |-> "array", integer |-> 0, elements |-> Len(elems), element |-> elems]

Elem(r, i) == r.element[i + 1]

\* __get_type: sizeof("ZINCRBY") and sizeof("SADD") count the terminating
\* zero, so the comparison covers the name and the byte after it.
get_type(r) ==
    IF r.elements = 4 /\ strncasecmp_eq(Elem(r, 0).str, ZINCRBY_STR, Len(ZINCRBY_STR) + 1)
    THEN TYPE_ZINCRBY
    ELSE IF r.elements > 2 /\ strncasecmp_eq(Elem(r, 0).str, SADD_STR, Len(SADD_STR) + 1)
    THEN TYPE_SADD
    ELSE TYPE_UNSUPPORTED

\* __hash_zincrby_cmd.  The result holds the hash afterwards, the return
\* value, the allocations attempted and whether a freed node was read.
hash_zincrby_cmd(ht, r, failAt, endian) ==
    LET AfterKey(k) ==
            LET AfterMember(m) ==
                    IF ~m.ok
                    THEN [ht |-> [ht EXCEPT !.z_cmds = m.c], ret |-> -1, n |-> m.n,
                          uaf |-> k.uaf]
                    ELSE [ht |-> [ht EXCEPT !.z_cmds =
                                    [m.c EXCEPT
                                        !.bucket[k.num][k.idx].bucket[m.num][m.idx].cell =
                                            CellAdd(@, strtod(Elem(r, 2).str))]],
                          ret |-> 0, n |-> m.n, uaf |-> k.uaf]
            IN  IF ~k.ok
                THEN [ht |-> [ht EXCEPT !.z_cmds = k.c], ret |-> -1, n |-> k.n,
                      uaf |-> k.uaf]
                ELSE AfterMember(find_member(k.c, k.num, k.idx, Elem(r, 3).str,
                                             Elem(r, 3).len, k.n, failAt, endian))
    IN  AfterKey(find_key(ht.z_cmds, Elem(r, 1).str, Elem(r, 1).len, 0, failAt))

\* The member loop of __hash_sadd_cmd from C index i: stops at the first
\* member that cannot be found or created.
RECURSIVE sadd_members(_, _, _, _, _, _, _, _)
sadd_members(c, knum, kidx, r, i, n, failAt, endian) ==
    IF i >= r.elements THEN [c |-> c, ok |-> TRUE, n |-> n]
    ELSE LET m == find_member(c, knum, kidx, Elem(r, i).str, Elem(r, i).len, n,
                              failAt, endian)
         IN  IF ~m.ok THEN [c |-> m.c, ok |-> FALSE, n |-> m.n]
             ELSE sadd_members(m.c, knum, kidx, r, i + 1, m.n, failAt, endian)

\* __hash_sadd_cmd
hash_sadd_cmd(ht, r, failAt, endian) ==
    LET AfterKey(k) ==
            LET AfterMembers(ms) ==
                    [ht |-> [ht EXCEPT !.s_cmds = ms.c],
                     ret |-> IF ms.ok THEN 0 ELSE -1, n |-> ms.n, uaf |-> k.uaf]
            IN  IF ~k.ok
                THEN [ht |-> [ht EXCEPT !.s_cmds = k.c], ret |-> -1, n |-> k.n,
                      uaf |-> k.uaf]
                ELSE AfterMembers(sadd_members(k.c, k.num, k.idx, r, 2, k.n, failAt,
                                               endian))
    IN  AfterKey(find_key(ht.s_cmds, Elem(r, 1).str, Elem(r, 1).len, 0, failAt))

\* cmdHashAdd: an unsupported command leaves the hash alone and returns
\* TYPE_UNSUPPORTED.
cmdHashAdd(ht, r, failAt, endian) ==
    IF get_type(r) = TYPE_ZINCRBY THEN hash_zincrby_cmd(ht, r, failAt, endian)
    ELSE IF get_type(r) = TYPE_SADD THEN hash_sadd_cmd(ht, r, failAt, endian)
    ELSE [ht |-> ht, ret |-> TYPE_UNSUPPORTED, n |-> 0, uaf |-> FALSE]

\* cmdHashGetCount
cmdHashGetCount(ht) == ht.z_cmds.members + ht.s_cmds.keys

(***************************************************************************)
(* The wire format (hiredis redisFormatCommandArgv): "*<argc>\r\n" and,    *)
(* for each of the argc arguments, "$<len>\r\n<bytes>\r\n".  An encoded    *)
(* command is kept as its header count and its bulk strings, a buffer as   *)
(* the sequence of the commands written to it; WireLen is the number of    *)
(* bytes of the encoding.                                                  *)
(***************************************************************************)
WireCmd(argc, argv) == [argc |-> argc, bulk |-> SubSeq(argv, 1, argc)]

RECURSIVE SumLen(_, _)
SumLen(bulk, i) ==
    IF i > Len(bulk) THEN 0
    ELSE 1 + Len(DecDigits(Len(bulk[i]))) + 2 + Len(bulk[i]) + 2 + SumLen(bulk, i + 1)

WireLen(w) == 1 + Len(DecDigits(w.argc)) + 2 + SumLen(w.bulk, 1)

\* snprintf(.., "%lld", v)
FormatLld(v) == IF v < 0 THEN << 45 >> \o DecDigits(0 - v) ELSE DecDigits(v)

(***************************************************************************)
(* The command buffer (buffer.c): buf, size, pos, cmd_count.               *)
(***************************************************************************)
cmdBufferCreate == [buf |-> << >>, size |-> INITIAL_ALLOC, pos |-> 0, cmd_count |-> 0]

\* cmdBufferGrow with newlen started from addlen alone.
cmdBufferGrow_addlen_only(buffer, addlen, fail) ==
    LET newlen == IF addlen < BUF_MAX_PREALLOC
                  THEN addlen * 2
                  ELSE addlen + BUF_MAX_PREALLOC
    IN  IF fail THEN [buffer |-> buffer, ret |-> -1]
        ELSE [buffer |-> [buffer EXCEPT !.size = newlen], ret |-> 0]

\* cmdBufferGrow: realloc fails (fail) or the capacity becomes newlen.
cmdBufferGrow(buffer, addlen, fail) ==
    LET newlen == IF buffer.pos + addlen < BUF_MAX_PREALLOC
                  THEN (buffer.pos + addlen) * 2
                  ELSE (buffer.pos + addlen) + BUF_MAX_PREALLOC
    IN  IF fail THEN [buffer |-> buffer, ret |-> -1]
        ELSE [buffer |-> [buffer EXCEPT !.size = newlen], ret |-> 0]

\* cmdBufferAppend growing the buffer as soon as it would be full.
cmdBufferAppend_grows_when_full(buffer, str, len, cmd_count, n, failAt) ==
    LET need == buffer.pos + len >= buffer.size
        n1 == IF need THEN n + 1 ELSE n
        grown == IF need THEN cmdBufferGrow(buffer, len, n1 = failAt)
                 ELSE [buffer |-> buffer, ret |-> 0]
    IN  IF grown.ret # 0
        THEN [buffer |-> grown.buffer, ret |-> -1, n |-> n1]
        ELSE [buffer |-> [grown.buffer EXCEPT
                             !.buf = grown.buffer.buf \o str,
                             !.pos = grown.buffer.pos + len,
                             !.cmd_count = grown.buffer.cmd_count + cmd_count],
              ret |-> 0, n |-> n1]

\* cmdBufferAppend of the encoded commands str, len bytes long.  n and
\* failAt number the allocations of the enclosing call.
cmdBufferAppend(buffer, str, len, cmd_count, n, failAt) ==
    LET need == buffer.pos + len > buffer.size
        n1 == IF need THEN n + 1 ELSE n
        grown == IF need THEN cmdBufferGrow(buffer, len, n1 = failAt)
                 ELSE [buffer |-> buffer, ret |-> 0]
    IN  IF grown.ret # 0
        THEN [buffer |-> grown.buffer, ret |-> -1, n |-> n1]
        ELSE [buffer |-> [grown.buffer EXCEPT
                             !.buf = grown.buffer.buf \o str,
                             !.pos = grown.buffer.pos + len,
                             !.cmd_count = grown.buffer.cmd_count + cmd_count],
              ret |-> 0, n |-> n1]

\* argv[i] of cmdBufferAddReply: a string element gives its bytes, an
\* integer element the decimal text of reply->integer, the integer field
\* of the reply that holds the elements.
AddReplyArg(reply, i) ==
    IF Elem(reply, i).type = "string" THEN Elem(reply, i).str
    ELSE FormatLld(reply.integer)

\* cmdBufferAddReply.  Allocations: the argv array, the command hiredis
\* formats, the growth of the buffer.  When hiredis cannot allocate, cmd is
\* an uninitialised pointer that is copied from and freed (crash).
cmdBufferAddReply(buffer, reply, failAt) ==
    LET w == WireCmd(reply.elements, [i \in 1..reply.elements |-> AddReplyArg(reply, i - 1)])
        app == cmdBufferAppend(buffer, << w >>, WireLen(w), 1, 2, failAt)
    IN  IF failAt = 1
        THEN [buffer |-> buffer, ret |-> -1, n |-> 1, crash |-> FALSE]
        ELSE IF failAt = 2
        THEN [buffer |-> buffer, ret |-> -1, n |-> 2, crash |-> TRUE]
        ELSE [buffer |-> app.buffer, ret |-> app.ret, n |-> app.n, crash |-> FALSE]

(***************************************************************************)
(* Flush (cmdHashGetCommands).  Buckets are visited by ascending index and *)
(* each chain from its head.                                               *)
(***************************************************************************)
\* The bucket loop counting down from the last index.
RECURSIVE Ascending_from_last(_)
Ascending_from_last(S) ==
    IF S = {} THEN << >>
    ELSE LET m == CHOOSE x \in S : \A y \in S : x >= y
         IN  << m >> \o Ascending_from_last(S \ {m})

RECURSIVE Ascending(_)
Ascending(S) ==
    IF S = {} THEN << >>
    ELSE LET m == CHOOSE x \in S : \A y \in S : x <= y
         IN  << m >> \o Ascending(S \ {m})

RECURSIVE ConcatChains(_, _)
ConcatChains(tab, idxs) ==
    IF idxs = << >> THEN << >>
    ELSE tab[Head(idxs)] \o ConcatChains(tab, Tail(idxs))

\* The nodes of a bucket array in the order the flush loops meet them.
Nodes(tab) == ConcatChains(tab, Ascending(DOMAIN tab))

\* The len bytes a format call reads at a stored copy.  A copy cut short
\* at a zero byte is followed by its terminator and then by bytes outside
\* the allocation, read as junk.
ReadBytes(copy, len, junk) ==
    IF len = 0 THEN << >>
    ELSE [i \in 1..len |-> IF i <= Len(copy) THEN copy[i]
                           ELSE IF i = Len(copy) + 1 THEN 0 ELSE junk]

OverRead(copy, len) == len > 0 /\ len > Len(copy) + 1

\* redisFormatCommand(&cmd, "ZINCRBY %b %f %b", key, klen, score, member, mlen)
ZincrbyWire(key, mem, junk) ==
    WireCmd(4, << ZINCRBY_STR, ReadBytes(key.key, key.len, junk), FormatF(mem.cell),
                  ReadBytes(mem.member, mem.len, junk) >>)

\* A step of the flush: a command to format and append (kind "z" or "s"),
\* or the visit of a key whose member table was never allocated (kind
\* "znull" or "snull"): key->bucket[i] is then a NULL dereference.
RECURSIVE ZincrbyKeyWires(_, _, _, _)
ZincrbyKeyWires(key, mems, i, junk) ==
    IF i > Len(mems) THEN << >>
    ELSE << [kind |-> "z", w |-> ZincrbyWire(key, mems[i], junk)] >>
         \o ZincrbyKeyWires(key, mems, i + 1, junk)

\* The steps of __append_zincrby_cmds, in order.
RECURSIVE ZincrbyWires(_, _, _)
ZincrbyWires(keys, i, junk) ==
    IF i > Len(keys) THEN << >>
    ELSE (IF keys[i].btab
          THEN ZincrbyKeyWires(keys[i], Nodes(keys[i].bucket), 1, junk)
          ELSE << [kind |-> "znull", w |-> WireCmd(0, << >>)] >>)
         \o ZincrbyWires(keys, i + 1, junk)

\* __append_sadd_key_cmd: argv has count + 2 slots, the member loop fills
\* one slot per node of the key, and count + 2 arguments are formatted.
SaddWire(key, junk) ==
    LET mems == Nodes(key.bucket)
        argv == << SADD_STR, ReadBytes(key.key, key.len, junk) >>
                \o [i \in 1..Len(mems) |-> ReadBytes(mems[i].member, mems[i].len, junk)]
    IN  WireCmd(key.count + 2, argv)

\* The steps of __append_sadd_cmds, in order.
RECURSIVE SaddWires(_, _, _)
SaddWires(keys, i, junk) ==
    IF i > Len(keys) THEN << >>
    ELSE << [kind |-> IF keys[i].btab THEN "s" ELSE "snull",
             w |-> SaddWire(keys[i], junk)] >>
         \o SaddWires(keys, i + 1, junk)

\* What the flush of a container does beyond the language's guarantees,
\* apart from the NULL dereference above: a read of a freed key node, a
\* write past the end of argv, a read past the end of a stored copy.
FreedNode(c) == \E k \in 1..Len(Nodes(c.bucket)) : Nodes(c.bucket)[k].freed

ArgvOverflow(c) ==
    \E k \in 1..Len(Nodes(c.bucket)) :
        Len(Nodes(Nodes(c.bucket)[k].bucket)) > Nodes(c.bucket)[k].count

ReadsPastCopy(c) ==
    \E k \in 1..Len(Nodes(c.bucket)) :
        LET key == Nodes(c.bucket)[k]
        IN  \/ OverRead(key.key, key.len)
            \/ \E m \in 1..Len(Nodes(key.bucket)) :
                   OverRead(Nodes(key.bucket)[m].member, Nodes(key.bucket)[m].len)

\* __realloc_buffer: the capacity asked for.
realloc_buffer_len(len, addlen) ==
    IF len + addlen < BUF_MAX_PREALLOC THEN (len + addlen) * 2
    ELSE (len + addlen) + BUF_MAX_PREALLOC

(***************************************************************************)
(* The steps of the flush from index i of ws.  b is the internal buffer    *)
(* (buf: _buf is not NULL; size, len, cmds).  A ZINCRBY command costs the  *)
(* allocation of its formatting (cmd is uninitialised when that fails:     *)
(* crash) and a realloc when it does not fit; an SADD command costs argv,  *)
(* argvlen, the formatting and a realloc when it does not fit.             *)
(***************************************************************************)
RECURSIVE append_cmds(_, _, _, _, _)
append_cmds(ws, i, b, n, failAt) ==
    IF i > Len(ws) THEN [b |-> b, ret |-> 0, n |-> n, crash |-> FALSE]
    ELSE LET kind == ws[i].kind
             len == WireLen(ws[i].w)
             pre == IF kind = "z" THEN 1 ELSE 3
             ovr == b.len + len > b.size
             n1 == IF ovr THEN n + pre + 1 ELSE n + pre
             b1 == [b EXCEPT !.size = IF ovr THEN realloc_buffer_len(b.len, len) ELSE b.size,
                             !.len = b.len + len,
                             !.cmds = Append(b.cmds, ws[i].w)]
             flushed == [b EXCEPT !.buf = FALSE, !.size = 0, !.len = 0, !.cmds = << >>]
         IN  IF kind = "znull"
             THEN [b |-> b, ret |-> -1, n |-> n, crash |-> TRUE]
             ELSE IF kind = "snull"
             THEN (IF failAt = n + 1 \/ failAt = n + 2
                   THEN [b |-> b, ret |-> -1, n |-> failAt, crash |-> FALSE]
                   ELSE [b |-> b, ret |-> -1, n |-> n + 2, crash |-> TRUE])
             ELSE IF kind = "z" /\ failAt = n + 1
             THEN [b |-> b, ret |-> -1, n |-> n + 1, crash |-> TRUE]
             ELSE IF kind = "s" /\ failAt > n /\ failAt <= n + 3
             THEN [b |-> b, ret |-> -1, n |-> failAt, crash |-> FALSE]
             ELSE IF ovr /\ failAt = n1
             THEN [b |-> IF kind = "z" THEN flushed ELSE b, ret |-> -1, n |-> n1,
                   crash |-> FALSE]
             ELSE append_cmds(ws, i + 1, b1, n1, failAt)

\* cmdHashGetCommands: the hash afterwards, the return value, the commands
\* and byte count handed back, and what went beyond the language (crash: a
\* certain crash; ub: a crash or the continuation modelled here).
cmdHashGetCommands(ht, failAt, junk) ==
    LET b0 == [buf |-> TRUE, size |-> IF ht.buf THEN 0 ELSE ht.size,
               len |-> IF ht.buf THEN 0 ELSE ht.len,
               cmds |-> IF ht.buf THEN << >> ELSE ht.cmds]
        With(b) == [ht EXCEPT !.buf = b.buf, !.size = b.size, !.len = b.len,
                              !.cmds = b.cmds]
        ub == \/ FreedNode(ht.z_cmds) \/ FreedNode(ht.s_cmds)
              \/ ArgvOverflow(ht.s_cmds)
              \/ ReadsPastCopy(ht.z_cmds) \/ ReadsPastCopy(ht.s_cmds)
        Appended(app) ==
            [ht |-> With(app.b), ret |-> app.ret,
             cmds |-> app.b.cmds, len |-> app.b.len, n |-> app.n,
             crash |-> app.crash, ub |-> ub]
    IN  IF failAt = 1
        THEN [ht |-> With([b0 EXCEPT !.buf = FALSE]),
              ret |-> -1, cmds |-> << >>, len |-> 0, n |-> 1,
              crash |-> FALSE, ub |-> FALSE]
        ELSE Appended(append_cmds(ZincrbyWires(Nodes(ht.z_cmds.bucket), 1, junk)
                                  \o SaddWires(Nodes(ht.s_cmds.bucket), 1, junk),
                                  1, b0, 1, failAt))

(***************************************************************************)
(* The run (buffer-optimize.c main).  State of the optimizerContext and    *)
(* the position of main:                                                   *)
(*   pc         "process": in processBufferFile; "append": before          *)
(*              appendAggCommands; "write": before the write of the output *)
(*              and the statistics; "done": main returned 0; "failed":     *)
(*              exit(1); "crashed": the process crashed                    *)
(*   stats      ctx->stats (--stat)                                        *)
(*   endian     byte order of the build                                    *)
(*   cmd_count  ctx->cmd_count                                             *)
(*   cmd_buffer ctx->cmd_buffer                                            *)
(*   cmd_hash   ctx->cmd_hash                                              *)
(*   outfile    the commands written to the output file                    *)
(*   alphabet   the commands the input file is made of                     *)
(* and, recorded beside the program's state:                               *)
(*   input      the replies read so far                                    *)
(*   last       the last reply processed: its number (0: none yet), the    *)
(*              value of __get_type, what cmdHashAdd returned, whether     *)
(*              cmdBufferAddReply was called and what it returned          *)
(*   fails      the allocations that have failed                           *)
(*   addfail    a cmdHashAdd call has returned -1 or a cmdBufferAddReply   *)
(*              call has returned a failure                                *)
(*   appended   the cmdBufferAddReply calls that have succeeded            *)
(* and, for the library functions main does not reach or that are driven   *)
(* on their own below:                                                     *)
(*   zhash      a zHash (zhash.c)                                          *)
(*   call       the last direct call of a library function: its number     *)
(*              (0: none yet), its arguments, what it returned and the     *)
(*              object before the call                                     *)
(***************************************************************************)
VARIABLES pc, stats, endian, cmd_count, cmd_buffer, cmd_hash, outfile, input,
          last, fails, addfail, appended, alphabet, zhash, call

vars == << pc, stats, endian, cmd_count, cmd_buffer, cmd_hash, outfile, input,
           last, fails, addfail, appended, alphabet, zhash, call >>

\* The replies the input is drawn from.
B(c) == << c >>

SetX1 == ArrayReply(<< StrElem(<< 83, 69, 84 >>), StrElem(B(120)), StrElem(B(49)) >>)
Del7 == ArrayReply(<< StrElem(<< 68, 69, 76 >>), IntElem(7) >>)
Zincrby(key, delta, member) ==
    ArrayReply(<< StrElem(ZINCRBY_STR), StrElem(key), StrElem(delta), StrElem(member) >>)
Sadd(key, members) ==
    ArrayReply(<< StrElem(SADD_STR), StrElem(key) >> \o [i \in 1..Len(members) |-> StrElem(members[i])])

\* A log of pass-through and mergeable commands: SET x 1, DEL with an
\* integer element, ZINCRBY k 1 a, SADD s a b.
MixedLog ==
    { SetX1, Del7,
      Zincrby(B(107), B(49), B(97)),
      Sadd(B(115), << B(97), B(98) >>) }

\* A log of ZINCRBY commands on member a: key k with deltas 1, 2, q and 0,
\* and the empty key.
NumericLog ==
    { Zincrby(B(107), B(49), B(97)),
      Zincrby(B(107), B(50), B(97)),
      Zincrby(B(107), B(113), B(97)),
      Zincrby(B(107), B(48), B(97)),
      Zincrby(<< >>, B(49), B(97)) }

\* A log of ZINCRBY commands whose keys share a bucket: k\0ad and k\0bC
\* (equal hashes), aaa and uhf (bucket 9320 of 22016).
BinaryLog ==
    { Zincrby(<< 107, 0, 97, 100 >>, B(49), B(97)),
      Zincrby(<< 107, 0, 98, 67 >>, B(49), B(97)),
      Zincrby(<< 97, 97, 97 >>, B(49), B(97)),
      Zincrby(<< 117, 104, 102 >>, B(49), B(97)) }

\* A log of SADD commands on key s: members a b, b c, a, and pr aa (pr and
\* aa share bucket 295 of 512).
SetLog ==
    { Sadd(B(115), << B(97), B(98) >>),
      Sadd(B(115), << B(98), B(99) >>),
      Sadd(B(115), << B(97) >>),
      Sadd(B(115), << << 112, 114 >>, << 97, 97 >> >>) }

Logs == { MixedLog, NumericLog, BinaryLog, SetLog }

Replies == UNION Logs

\* Values of the bytes read outside an allocation.
JunkBytes == { 0, 255 }

\* The most allocations one handler attempts on the replies above.
MaxSites == 8

Init ==
    /\ pc = "process"
    /\ stats \in BOOLEAN
    /\ endian \in { "little", "big" }
    /\ cmd_count = 0
    /\ cmd_buffer = cmdBufferCreate
    /\ cmd_hash = cmdHashCreate(KHASH_SIZE, MHASH_SIZE)
    /\ outfile = << >>
    /\ input = << >>
    /\ last = [no |-> 0, type |-> TYPE_UNSUPPORTED, ret |-> 0, added |-> FALSE, bret |-> 0]
    /\ fails = 0
    /\ addfail = FALSE
    /\ appended = 0
    /\ alphabet \in Logs
    /\ zhash = NULLp
    /\ call = [no |-> 0]

\* What a step that went beyond the language may do: crash, or go on as
\* modelled.
Outcomes(crash, ub) ==
    IF crash THEN { "crash" } ELSE IF ub THEN { "crash", "go" } ELSE { "go" }

(***************************************************************************)
(* One round of the reply loop of processBufferFile: cmdHashAdd, then      *)
(* cmdBufferAddReply if it returned TYPE_UNSUPPORTED (both return values   *)
(* are otherwise dropped), then cmd_count++.                               *)
(***************************************************************************)
ProcessReply(reply, failAt) ==
    /\ pc = "process"
    /\ cmd_count < MaxCmds
    /\ reply \in alphabet
    /\ \E h \in { cmdHashAdd(cmd_hash, reply, failAt, endian) } :
       \E a \in { IF h.ret = TYPE_UNSUPPORTED
                   THEN cmdBufferAddReply(cmd_buffer, reply, failAt)
                   ELSE [buffer |-> cmd_buffer, ret |-> 0, n |-> 0, crash |-> FALSE] } :
          /\ failAt > 0 => ((h.n >= failAt \/ a.n >= failAt) /\ fails < MaxFail)
          /\ \E oc \in Outcomes(a.crash, h.uaf) :
                IF oc = "crash"
                THEN /\ pc' = "crashed"
                     /\ UNCHANGED << cmd_count, cmd_buffer, cmd_hash, input, last,
                                     addfail, appended >>
                ELSE /\ pc' = pc
                     /\ cmd_hash' = h.ht
                     /\ cmd_buffer' = a.buffer
                     /\ cmd_count' = cmd_count + 1
                     /\ input' = Append(input, reply)
                     /\ last' = [no |-> cmd_count + 1, type |-> get_type(reply),
                                 ret |-> h.ret, added |-> h.ret = TYPE_UNSUPPORTED,
                                 bret |-> a.ret]
                     /\ addfail' = (addfail \/ h.ret = -1 \/ a.ret # 0)
                     /\ appended' = IF h.ret = TYPE_UNSUPPORTED /\ a.ret = 0
                                    THEN appended + 1 ELSE appended
          /\ fails' = IF failAt > 0 THEN fails + 1 ELSE fails
    /\ UNCHANGED << stats, endian, outfile, alphabet, zhash, call >>

\* redisReaderGetReply returns REDIS_ERR: processBufferFile returns -1 and
\* main exits.
ReadError ==
    /\ pc = "process"
    /\ pc' = "failed"
    /\ UNCHANGED << stats, endian, cmd_count, cmd_buffer, cmd_hash, outfile, input,
                    last, fails, addfail, appended, alphabet,
                    zhash, call >>

\* gzread returns 0: processBufferFile returns 0.
EndOfInput ==
    /\ pc = "process"
    /\ pc' = "append"
    /\ UNCHANGED << stats, endian, cmd_count, cmd_buffer, cmd_hash, outfile, input,
                    last, fails, addfail, appended, alphabet,
                    zhash, call >>

\* appendAggCommands called from inside the reply loop as well.
AppendAggCommands_while_reading(failAt, junk) ==
    /\ pc \in { "process", "append" }
    /\ IF stats
       THEN /\ failAt = 0
            /\ cmd_buffer' = [cmd_buffer EXCEPT
                                 !.cmd_count = cmd_buffer.cmd_count + cmdHashGetCount(cmd_hash)]
            /\ pc' = IF pc = "process" THEN pc ELSE "write"
            /\ UNCHANGED << cmd_hash, fails >>
       ELSE \E g \in { cmdHashGetCommands(cmd_hash, failAt, junk) } :
            \E a \in { IF g.ret = 0
                        THEN cmdBufferAppend(cmd_buffer, g.cmds, g.len,
                                             cmdHashGetCount(cmd_hash), g.n, failAt)
                        ELSE [buffer |-> cmd_buffer, ret |-> -1, n |-> g.n] } :
               /\ failAt > 0 => (a.n >= failAt /\ fails < MaxFail)
               /\ \E oc \in Outcomes(g.crash, g.ub) :
                     IF oc = "crash"
                     THEN /\ pc' = "crashed"
                          /\ UNCHANGED << cmd_buffer, cmd_hash >>
                     ELSE /\ cmd_hash' = g.ht
                          /\ cmd_buffer' = a.buffer
                          /\ pc' = IF a.ret # 0 THEN "failed"
                                   ELSE IF pc = "process" THEN pc ELSE "write"
               /\ fails' = IF failAt > 0 THEN fails + 1 ELSE fails
    /\ UNCHANGED << stats, endian, cmd_count, outfile, input, last, addfail, appended,
                    alphabet, zhash, call >>

\* appendAggCommands, and main's exit when it fails.
AppendAggCommands(failAt, junk) ==
    /\ pc = "append"
    /\ IF stats
       THEN /\ failAt = 0
            /\ cmd_buffer' = [cmd_buffer EXCEPT
                                 !.cmd_count = cmd_buffer.cmd_count + cmdHashGetCount(cmd_hash)]
            /\ pc' = "write"
            /\ UNCHANGED << cmd_hash, fails >>
       ELSE \E g \in { cmdHashGetCommands(cmd_hash, failAt, junk) } :
            \E a \in { IF g.ret = 0
                        THEN cmdBufferAppend(cmd_buffer, g.cmds, g.len,
                                             cmdHashGetCount(cmd_hash), g.n, failAt)
                        ELSE [buffer |-> cmd_buffer, ret |-> -1, n |-> g.n] } :
               /\ failAt > 0 => (a.n >= failAt /\ fails < MaxFail)
               /\ \E oc \in Outcomes(g.crash, g.ub) :
                     IF oc = "crash"
                     THEN /\ pc' = "crashed"
                          /\ UNCHANGED << cmd_buffer, cmd_hash >>
                     ELSE /\ cmd_hash' = g.ht
                          /\ cmd_buffer' = a.buffer
                          /\ pc' = IF a.ret = 0 THEN "write" ELSE "failed"
               /\ fails' = IF failAt > 0 THEN fails + 1 ELSE fails
    /\ UNCHANGED << stats, endian, cmd_count, outfile, input, last, addfail, appended,
                    alphabet, zhash, call >>

\* The end of main without the refusal of an empty buffer.
WriteOutput_accepts_empty(ok, short) ==
    /\ pc = "write"
    /\ IF stats \/ cmd_count = 0
       THEN /\ ok /\ short = 0
            /\ pc' = "done"
            /\ outfile' = outfile
       ELSE IF ok
            THEN /\ short = 0
                 /\ pc' = "done"
                 /\ outfile' = cmd_buffer.buf
            ELSE /\ short < Len(cmd_buffer.buf)
                 /\ pc' = "failed"
                 /\ outfile' = SubSeq(cmd_buffer.buf, 1, short)
    /\ UNCHANGED << stats, endian, cmd_count, cmd_buffer, cmd_hash, input, last, fails,
                    addfail, appended, alphabet, zhash, call >>

(***************************************************************************)
(* The end of main.  Outside stats mode the buffer is written when at      *)
(* least one command was read (writeFile may write less than asked: main   *)
(* exits with whatever prefix reached the file), and an input of no        *)
(* command is an error.                                                    *)
(***************************************************************************)
WriteOutput(ok, short) ==
    /\ pc = "write"
    /\ IF stats
       THEN /\ ok /\ short = 0
            /\ pc' = "done"
            /\ outfile' = outfile
       ELSE IF cmd_count > 0
       THEN IF ok
            THEN /\ short = 0
                 /\ pc' = "done"
                 /\ outfile' = cmd_buffer.buf
            ELSE /\ short < Len(cmd_buffer.buf)
                 /\ pc' = "failed"
                 /\ outfile' = SubSeq(cmd_buffer.buf, 1, short)
       ELSE /\ ok /\ short = 0
            /\ pc' = "failed"
            /\ outfile' = outfile
    /\ UNCHANGED << stats, endian, cmd_count, cmd_buffer, cmd_hash, input, last, fails,
                    addfail, appended, alphabet,
                    zhash, call >>

Next ==
    \/ \E reply \in Replies, failAt \in 0..MaxSites : ProcessReply(reply, failAt)
    \/ ReadError
    \/ EndOfInput
    \/ \E failAt \in 0..MaxSites, junk \in JunkBytes : AppendAggCommands(failAt, junk)
    \/ \E ok \in BOOLEAN, short \in 0..MaxCmds : WriteOutput(ok, short)

Spec == Init /\ [][Next]_vars

(***************************************************************************)
(* Classification alone: one parsed command, drawn from names around       *)
(* "ZINCRBY" and "SADD" and from element counts around 3 and 4, is handed  *)
(* to __get_type as cmdHashAdd does.                                       *)
(***************************************************************************)
Names ==
    { ZINCRBY_STR, << 122, 105, 110, 99, 114, 98, 121 >>,
      << 90, 105, 78, 99, 82, 98, 89 >>, << 90, 73, 78, 67, 82, 66 >>,
      ZINCRBY_STR \o B(88), ZINCRBY_STR \o << 0, 88 >>,
      SADD_STR, << 115, 97, 100, 100 >>, << 83, 65, 68 >>, SADD_STR \o B(88),
      SADD_STR \o << 0, 88 >>, << 83, 69, 84 >>, << >> }

MaxElements == 5

Named(name, elements) ==
    ArrayReply(<< StrElem(name) >> \o [i \in 1..(elements - 1) |-> StrElem(B(96 + i))])

InitClassify ==
    /\ pc = "classify"
    /\ stats = FALSE
    /\ endian = "little"
    /\ cmd_count = 0
    /\ cmd_buffer = cmdBufferCreate
    /\ cmd_hash = cmdHashCreate(KHASH_SIZE, MHASH_SIZE)
    /\ outfile = << >>
    /\ \E name \in Names, elements \in 1..MaxElements : input = << Named(name, elements) >>
    /\ last = [no |-> 0, type |-> TYPE_UNSUPPORTED, ret |-> 0, added |-> FALSE, bret |-> 0]
    /\ fails = 0
    /\ addfail = FALSE
    /\ appended = 0
    /\ alphabet = { }
    /\ zhash = NULLp
    /\ call = [no |-> 0]

\* The switch of cmdHashAdd on __get_type(cmd).
Classify ==
    /\ pc = "classify"
    /\ pc' = "classified"
    /\ last' = [last EXCEPT !.no = 1, !.type = get_type(input[1])]
    /\ UNCHANGED << stats, endian, cmd_count, cmd_buffer, cmd_hash, outfile, input, fails,
                    addfail, appended, alphabet,
                    zhash, call >>

NextClassify == Classify

SpecClassify == InitClassify /\ [][NextClassify]_vars

(***************************************************************************)
(* The ZINCRBY-only hash (zhash.c), which main does not use.  Its nodes    *)
(* carry no counters: a member node is member, len, value (a double, kept  *)
(* as a cell) and a key node is key, len, btab, bucket, freed as above.    *)
(* buf is _buf: 0 for NULL, otherwise the number of the allocation it      *)
(* points at; size and len are _size and _len, cmds the commands copied    *)
(* into the buffer.  heap is the C heap as far as these allocations go:    *)
(* heap[a].frees counts the free() calls made on allocation a and          *)
(* heap[a].stale tells whether it was written or resized after a free.     *)
(***************************************************************************)
ZeroZMember == [member |-> NULLp, len |-> 0, value |-> 0]

ZeroZKey == [key |-> NULLp, len |-> 0, btab |-> FALSE, bucket |-> << >>, freed |-> FALSE]

\* zHashCreate (both allocations succeed)
zHashCreate(ksize, msize) ==
    IF ksize < 1 \/ msize < 1 THEN NULLp
    ELSE [ksize |-> ksize, msize |-> msize, count |-> 0, str_len |-> 0,
          bucket |-> << >>, buf |-> 0, size |-> 0, len |-> 0, cmds |-> << >>,
          heap |-> << >>]

\* __findKey of zhash.c, with n and failAt as in find_key.  A node whose
\* key copy fails is freed and stays linked.
findKey(ht, key, len, n, failAt) ==
    LET num == GET_BUCKET(key, len, ht.ksize)
        chain == ChainAt(ht.bucket, num)
        hit == ScanKeys(chain, key, len, 1)
        seen == IF hit = 0 THEN Len(chain) ELSE hit
        uaf == \E i \in 1..seen : chain[i].freed
        none == [ht |-> ht, ok |-> FALSE, num |-> num, idx |-> 0, n |-> n + 1, uaf |-> uaf]
    IN  IF chain # << >> /\ hit # 0
        THEN [ht |-> ht, ok |-> TRUE, num |-> num, idx |-> hit, n |-> n, uaf |-> uaf]
        ELSE IF n + 1 = failAt
        THEN none
        ELSE IF n + 2 = failAt
        THEN [none EXCEPT
                 !.ht = [ht EXCEPT !.bucket = SetChain(ht.bucket, num,
                            Append(chain, [ZeroZKey EXCEPT !.freed = TRUE]))],
                 !.n = n + 2]
        ELSE [ht |-> [ht EXCEPT
                        !.bucket = SetChain(ht.bucket, num,
                            Append(chain, [ZeroZKey EXCEPT !.key = strndup(key, len),
                                                           !.len = len]))],
              ok |-> TRUE, num |-> num, idx |-> Len(chain) + 1, n |-> n + 2,
              uaf |-> uaf]

\* __findMember of zhash.c on the key node at (knum, kidx): a member that
\* is found is returned as it is.
findMember(ht, knum, kidx, member, len, n, failAt) ==
    LET key == ht.bucket[knum][kidx]
        num == GET_BUCKET(member, len, ht.msize)
        n1 == IF key.btab THEN n ELSE n + 1
        chain == ChainAt(key.bucket, num)
        hit == ScanMembers(chain, member, len, 1)
        WithKey(k) == [ht EXCEPT !.bucket[knum][kidx] = k]
        tabbed == [key EXCEPT !.btab = TRUE]
    IN  IF ~key.btab /\ n1 = failAt
        THEN [ht |-> ht, ok |-> FALSE, num |-> num, idx |-> 0, n |-> n1]
        ELSE IF chain # << >> /\ hit # 0
        THEN [ht |-> WithKey(tabbed), ok |-> TRUE, num |-> num, idx |-> hit, n |-> n1]
        ELSE IF n1 + 1 = failAt
        THEN [ht |-> WithKey(tabbed), ok |-> FALSE, num |-> num, idx |-> 0, n |-> n1 + 1]
        ELSE IF n1 + 2 = failAt
        THEN [ht |-> WithKey([tabbed EXCEPT
                        !.bucket = SetChain(key.bucket, num, Append(chain, ZeroZMember))]),
              ok |-> FALSE, num |-> num, idx |-> 0, n |-> n1 + 2]
        ELSE [ht |-> [WithKey([tabbed EXCEPT
                        !.bucket = SetChain(key.bucket, num,
                            Append(chain, [ZeroZMember EXCEPT
                                              !.member = strndup(member, len),
                                              !.len = len]))])
                      EXCEPT !.str_len = ht.str_len + len,
                             !.count = ht.count + 1],
              ok |-> TRUE, num |-> num, idx |-> Len(chain) + 1, n |-> n1 + 2]

\* zHashAdd: the NULL, length and value check, then the key, the member
\* and the addition.
zHashAdd(ht, key, klen, value, member, mlen, failAt) ==
    LET AfterKey(k) ==
            LET AfterMember(m) ==
                    IF ~m.ok
                    THEN [ht |-> m.ht, ret |-> -1, n |-> m.n, uaf |-> k.uaf]
                    ELSE [ht |-> [m.ht EXCEPT
                                     !.bucket[k.num][k.idx].bucket[m.num][m.idx].value =
                                         CellAdd(@, value)],
                          ret |-> 0, n |-> m.n, uaf |-> k.uaf]
            IN  IF ~k.ok
                THEN [ht |-> k.ht, ret |-> -1, n |-> k.n, uaf |-> k.uaf]
                ELSE AfterMember(findMember(k.ht, k.num, k.idx, member, mlen, k.n, failAt))
    IN  IF key = NULLp \/ klen < 1 \/ member = NULLp \/ mlen < 1 \/ CellVal(value) = 0
        THEN [ht |-> ht, ret |-> -1, n |-> 0, uaf |-> FALSE]
        ELSE AfterKey(findKey(ht, key, klen, 0, failAt))

(***************************************************************************)
(* The flush of zhash.c.                                                   *)
(***************************************************************************)
ZINCRBY_PROT_LEN == 3 + (3 * 7) + (2 * 3)

ZBUF_MAX_PREALLOC == 1024 * 1024

\* __flushBuffer: free(_buf) and the two resets when _buf is not NULL;
\* _buf itself keeps its value.
flushBuffer(ht) ==
    IF ht.buf # 0
    THEN [ht EXCEPT !.heap[ht.buf].frees = @ + 1, !.size = 0, !.len = 0, !.cmds = << >>]
    ELSE ht

\* __reallocBuffer: the new size is doubled below ZBUF_MAX_PREALLOC; the
\* allocation keeps its number when realloc succeeds.
reallocBuffer(ht, addlen, fail) ==
    LET newlen == ht.len + addlen
    IN  IF fail THEN [ht |-> ht, ret |-> -1]
        ELSE [ht |-> [ht EXCEPT
                         !.size = IF newlen < ZBUF_MAX_PREALLOC THEN newlen * 2
                                  ELSE newlen + ZBUF_MAX_PREALLOC,
                         !.heap[ht.buf].stale = @ \/ ht.heap[ht.buf].frees > 0],
              ret |-> 0]

\* __appendBuffer of the command w of len bytes.
appendBuffer(ht, w, len, fail) ==
    LET Copy(r) ==
            IF r.ret # 0 THEN [ht |-> r.ht, ret |-> -1]
            ELSE [ht |-> [r.ht EXCEPT
                             !.len = @ + len,
                             !.cmds = Append(@, w),
                             !.heap[r.ht.buf].stale = @ \/ r.ht.heap[r.ht.buf].frees > 0],
                  ret |-> 0]
    IN  IF ht.len + len > ht.size
        THEN Copy(reallocBuffer(ht, len, fail))
        ELSE Copy([ht |-> ht, ret |-> 0])

\* The command formatted for a member node: "ZINCRBY %b %f %b".
ZMemberWire(key, mem, junk) ==
    WireCmd(4, << ZINCRBY_STR, ReadBytes(key.key, key.len, junk), FormatF(mem.value),
                  ReadBytes(mem.member, mem.len, junk) >>)

(***************************************************************************)
(* __appendMemberCommands from member i of mems, the member nodes of key   *)
(* in bucket order.  len is a size_t, so len < 0 never holds: when the     *)
(* formatting fails (allocation n + 1) cmd is uninitialised and len is     *)
(* SIZE_MAX, a crash in memcpy.  A command that does not fit costs a       *)
(* realloc (allocation n + 2), and __flushBuffer when that fails.  The     *)
(* __appendBuffer that follows never has to grow the buffer again.         *)
(***************************************************************************)
RECURSIVE appendMemberCommands(_, _, _, _, _, _, _)
appendMemberCommands(ht, key, mems, i, n, failAt, junk) ==
    IF i > Len(mems) THEN [ht |-> ht, ret |-> 0, n |-> n, crash |-> FALSE]
    ELSE LET w == ZMemberWire(key, mems[i], junk)
             len == WireLen(w)
             ovr == ht.len + len > ht.size
             n1 == IF ovr THEN n + 2 ELSE n + 1
             Grown(r) ==
                 IF r.ret < 0
                 THEN [ht |-> flushBuffer(r.ht), ret |-> -1, n |-> n1, crash |-> FALSE]
                 ELSE appendMemberCommands(appendBuffer(r.ht, w, len, FALSE).ht, key, mems,
                                           i + 1, n1, failAt, junk)
         IN  IF failAt = n + 1
             THEN [ht |-> ht, ret |-> -1, n |-> n + 1, crash |-> TRUE]
             ELSE IF ovr
             THEN Grown(reallocBuffer(ht, len, failAt = n1))
             ELSE Grown([ht |-> ht, ret |-> 0])

\* The key loop of zHashGetCommands from key i of keys: a key whose member
\* table was never allocated is a NULL dereference (key->bucket[i]), and
\* a failed __appendMemberCommands is followed by a second __flushBuffer.
RECURSIVE appendKeyCommands(_, _, _, _, _, _)
appendKeyCommands(ht, keys, i, n, failAt, junk) ==
    IF i > Len(keys) THEN [ht |-> ht, ret |-> 0, n |-> n, crash |-> FALSE]
    ELSE LET Appended(r) ==
                 IF r.crash THEN r
                 ELSE IF r.ret < 0 THEN [r EXCEPT !.ht = flushBuffer(r.ht)]
                 ELSE appendKeyCommands(r.ht, keys, i + 1, r.n, failAt, junk)
         IN  IF ~keys[i].btab
             THEN [ht |-> ht, ret |-> -1, n |-> n, crash |-> TRUE]
             ELSE Appended(appendMemberCommands(ht, keys[i], Nodes(keys[i].bucket), 1, n,
                                                failAt, junk))

\* An allocation of new that free() was called on again: one more free
\* than in old, and more than one in all.
FreedAgain(old, new) ==
    \E a \in DOMAIN new.heap :
        /\ new.heap[a].frees > 1
        /\ a \in DOMAIN old.heap => new.heap[a].frees > old.heap[a].frees

(***************************************************************************)
(* zHashGetCommands with ret_str not NULL: __flushBuffer, the size         *)
(* estimate, the malloc (allocation 1; _buf is NULL when it fails), then   *)
(* the keys in bucket order.  ub: a node that findKey freed was read, or   *)
(* free() was called on an allocation already freed.                       *)
(***************************************************************************)
zHashGetCommands(ht, failAt, junk) ==
    LET flushed == flushBuffer(ht)
        size == ht.str_len + (8 * ht.count) + (ZINCRBY_PROT_LEN * ht.count)
        fresh == [flushed EXCEPT !.size = size,
                                 !.buf = Len(flushed.heap) + 1,
                                 !.heap = Append(@, [frees |-> 0, stale |-> FALSE])]
        Done(r) == [ht |-> r.ht, ret |-> r.ret, n |-> r.n, crash |-> r.crash,
                    ub |-> FreedNode(ht) \/ FreedAgain(ht, r.ht)]
    IN  IF failAt = 1
        THEN Done([ht |-> [flushed EXCEPT !.buf = 0, !.size = 0], ret |-> -1, n |-> 1,
                   crash |-> FALSE])
        ELSE Done(appendKeyCommands(fresh, Nodes(ht.bucket), 1, 1, failAt, junk))

\* zHashFree: the key buckets (a key without a member table is a NULL
\* dereference in __freeMemberList; a node that findKey freed is freed
\* again), then free(_buf) when _buf is not NULL.
zHashFree(ht) ==
    LET keys == Nodes(ht.bucket)
        freed == IF ht.buf # 0
                 THEN [ht EXCEPT !.heap[ht.buf].frees = @ + 1, !.bucket = << >>]
                 ELSE [ht EXCEPT !.bucket = << >>]
    IN  [ht |-> freed,
         crash |-> \E i \in 1..Len(keys) : ~keys[i].btab,
         ub |-> FreedNode(ht) \/ FreedAgain(ht, freed)]

(***************************************************************************)
(* The zHash driven on its own: zHashAdd calls on a fresh zHash with keys  *)
(* "", k, j, members "", a, b and the values 0, 1 and 2, zHashGetCommands  *)
(* calls between them, and zHashFree at the end.  last.no counts the       *)
(* zHashGetCommands calls and last.ret is the return value of the last.    *)
(***************************************************************************)
MaxZAdds == 3

MaxZGets == 2

ZKeys == { << >>, B(107), B(106) }

ZMembers == { << >>, B(97), B(98) }

ZValues == { strtod(B(48)), strtod(B(49)), strtod(B(50)) }

InitZHash ==
    /\ pc = "zhash"
    /\ stats = FALSE
    /\ endian = "little"
    /\ cmd_count = 0
    /\ cmd_buffer = cmdBufferCreate
    /\ cmd_hash = cmdHashCreate(KHASH_SIZE, MHASH_SIZE)
    /\ outfile = << >>
    /\ input = << >>
    /\ last = [no |-> 0, type |-> TYPE_UNSUPPORTED, ret |-> 0, added |-> FALSE, bret |-> 0]
    /\ fails = 0
    /\ addfail = FALSE
    /\ appended = 0
    /\ alphabet = { }
    /\ zhash = zHashCreate(KHASH_SIZE, MHASH_SIZE)
    /\ call = [no |-> 0]

ZHashAdd(key, value, member, failAt) ==
    /\ pc = "zhash"
    /\ call.no < MaxZAdds
    /\ \E z \in { zHashAdd(zhash, key, Len(key), value, member, Len(member), failAt) } :
          /\ failAt > 0 => (z.n >= failAt /\ fails < MaxFail)
          /\ \E oc \in Outcomes(FALSE, z.uaf) :
                IF oc = "crash"
                THEN /\ pc' = "crashed"
                     /\ UNCHANGED << zhash, call >>
                ELSE /\ pc' = pc
                     /\ zhash' = z.ht
                     /\ call' = [no |-> call.no + 1, key |-> key, value |-> value,
                                 member |-> member, ret |-> z.ret, failed |-> failAt > 0,
                                 before |-> zhash]
          /\ fails' = IF failAt > 0 THEN fails + 1 ELSE fails
    /\ UNCHANGED << stats, endian, cmd_count, cmd_buffer, cmd_hash, outfile, input, last,
                    addfail, appended, alphabet >>

ZHashGetCommands(failAt, junk) ==
    /\ pc = "zhash"
    /\ last.no < MaxZGets
    /\ \E g \in { zHashGetCommands(zhash, failAt, junk) } :
          /\ failAt > 0 => (g.n >= failAt /\ fails < MaxFail)
          /\ \E oc \in Outcomes(g.crash, g.ub) :
                IF oc = "crash"
                THEN /\ pc' = "crashed"
                     /\ UNCHANGED << zhash, last >>
                ELSE /\ pc' = pc
                     /\ zhash' = g.ht
                     /\ last' = [last EXCEPT !.no = @ + 1, !.ret = g.ret]
          /\ fails' = IF failAt > 0 THEN fails + 1 ELSE fails
    /\ UNCHANGED << stats, endian, cmd_count, cmd_buffer, cmd_hash, outfile, input,
                    addfail, appended, alphabet, call >>

ZHashFree ==
    /\ pc = "zhash"
    /\ \E f \in { zHashFree(zhash) } :
          \E oc \in Outcomes(f.crash, f.ub) :
              IF oc = "crash"
              THEN /\ pc' = "crashed"
                   /\ UNCHANGED zhash
              ELSE /\ pc' = "freed"
                   /\ zhash' = f.ht
    /\ UNCHANGED << stats, endian, cmd_count, cmd_buffer, cmd_hash, outfile, input, last,
                    fails, addfail, appended, alphabet, call >>

NextZHash ==
    \/ \E key \in ZKeys, value \in ZValues, member \in ZMembers, failAt \in 0..MaxSites :
          ZHashAdd(key, value, member, failAt)
    \/ \E failAt \in 0..MaxSites, junk \in JunkBytes : ZHashGetCommands(failAt, junk)
    \/ ZHashFree

SpecZHash == InitZHash /\ [][NextZHash]_vars

(***************************************************************************)
(* The command buffer driven on its own: cmdBufferCreate, then             *)
(* cmdBufferAppend calls of chosen lengths and command counts, the realloc *)
(* of a growth failing or not.  The bytes do not matter to the capacity:   *)
(* str is given as one empty command per command counted.                  *)
(***************************************************************************)
MaxAppends == 3

AppendLens == { 0, 1, 1000, INITIAL_ALLOC, INITIAL_ALLOC + 1, 600000, BUF_MAX_PREALLOC }

AppendCounts == { 0, 1, 2 }

InitBuffer ==
    /\ pc = "buffer"
    /\ stats = FALSE
    /\ endian = "little"
    /\ cmd_count = 0
    /\ cmd_buffer = cmdBufferCreate
    /\ cmd_hash = cmdHashCreate(KHASH_SIZE, MHASH_SIZE)
    /\ outfile = << >>
    /\ input = << >>
    /\ last = [no |-> 0, type |-> TYPE_UNSUPPORTED, ret |-> 0, added |-> FALSE, bret |-> 0]
    /\ fails = 0
    /\ addfail = FALSE
    /\ appended = 0
    /\ alphabet = { }
    /\ zhash = NULLp
    /\ call = [no |-> 0]

BufferAppend(len, count, fail) ==
    /\ pc = "buffer"
    /\ call.no < MaxAppends
    /\ \E a \in { cmdBufferAppend(cmd_buffer, [i \in 1..count |-> WireCmd(0, << >>)], len,
                                   count, 0, IF fail THEN 1 ELSE 0) } :
          /\ fail => a.n = 1
          /\ cmd_buffer' = a.buffer
          /\ call' = [no |-> call.no + 1, len |-> len, cmd_count |-> count, ret |-> a.ret,
                      before |-> cmd_buffer]
    /\ UNCHANGED << pc, stats, endian, cmd_count, cmd_hash, outfile, input, last, fails,
                    addfail, appended, alphabet, zhash >>

NextBuffer ==
    \E len \in AppendLens, count \in AppendCounts, fail \in BOOLEAN :
        BufferAppend(len, count, fail)

SpecBuffer == InitBuffer /\ [][NextBuffer]_vars

(***************************************************************************)
(* What the specification says of the program, stated over the runs above. *)
(***************************************************************************)
\* The encoding of a parsed command element by element: a string element
\* gives its bytes, an integer element the decimal text of its own value.
ElementText(e) == IF e.type = "string" THEN e.str ELSE FormatLld(e.integer)

EncodingOf(r) == WireCmd(r.elements, [i \in 1..r.elements |-> ElementText(r.element[i])])

\* All member nodes of a container, key by key.
RECURSIVE MemberNodes(_, _)
MemberNodes(keys, i) ==
    IF i > Len(keys) THEN << >>
    ELSE Nodes(keys[i].bucket) \o MemberNodes(keys, i + 1)

ZEntries == MemberNodes(Nodes(cmd_hash.z_cmds.bucket), 1)

SKeys == Nodes(cmd_hash.s_cmds.bucket)

AllIn(seq, S) == \A i \in 1..Len(seq) : seq[i] \in S

\* The ZINCRBY commands of the input on key "k" and member "a", and the sum
\* of their deltas.
ZIncrKA == { Zincrby(B(107), B(49), B(97)), Zincrby(B(107), B(50), B(97)) }

RECURSIVE SumDeltas(_, _)
SumDeltas(seq, i) ==
    IF i > Len(seq) THEN 0
    ELSE strtod_digits(Elem(seq[i], 2).str, 1, 0) + SumDeltas(seq, i + 1)

\* C1: after any sequence of ZINCRBY commands on one (key, member), all
\* added without failure, the table holds one entry for the pair and its
\* score is the sum of the deltas (so the order of the commands does not
\* matter).
C1_ScoreIsSumOfDeltas ==
    (fails = 0 /\ input # << >> /\ AllIn(input, ZIncrKA))
        => /\ Len(ZEntries) = 1
           /\ CellVal(ZEntries[1].cell) = SumDeltas(input, 1) * CellOne

\* The SADD commands of the input that add member "a" to key "s" once each.
SAddSA == { Sadd(B(115), << B(97), B(98) >>), Sadd(B(115), << B(97) >>) }

Holding(nodes, bytes) == { i \in 1..Len(nodes) : nodes[i].member = bytes }

\* C2: after member "a" was added to key "s" N times without failure, the
\* key holds exactly one entry for "a", its hit count is N, and the SADD
\* command flushed for the key carries "a" exactly once.
C2_HitCountIsN ==
    (fails = 0 /\ input # << >> /\ AllIn(input, SAddSA))
        => /\ Len(SKeys) = 1
           /\ Cardinality(Holding(Nodes(SKeys[1].bucket), B(97))) = 1
           /\ \A i \in Holding(Nodes(SKeys[1].bucket), B(97)) :
                  CellHits(Nodes(SKeys[1].bucket)[i].cell, endian) = Len(input)
           /\ (pc = "done" /\ ~stats)
                  => Cardinality({ j \in 1..Len(outfile[1].bulk) :
                                     outfile[1].bulk[j] = B(97) }) = 1

IsUnsupported(r) == get_type(r) = TYPE_UNSUPPORTED

NamedAs(w, name) == Len(w.bulk) > 0 /\ w.bulk[1] = name

\* C3: the output written by a completed run is the pass-through commands
\* of the input in their input order, then ZINCRBY commands only, then SADD
\* commands only.
C3_OutputOrder ==
    (pc = "done" /\ ~stats)
        => LET pass == SelectSeq(input, IsUnsupported)
           IN  /\ Len(outfile) >= Len(pass)
               /\ \A i \in 1..Len(pass) : outfile[i] = EncodingOf(pass[i])
               /\ \E z \in Len(pass)..Len(outfile) :
                      /\ \A i \in (Len(pass) + 1)..z : NamedAs(outfile[i], ZINCRBY_STR)
                      /\ \A i \in (z + 1)..Len(outfile) : NamedAs(outfile[i], SADD_STR)

\* C4: after appendAggCommands the buffer's command counter is the number
\* of pass-through commands appended plus the (key, member) entries of the
\* numeric table plus the keys of the set table, and outside stats mode it
\* is the number of commands in the buffer.
C4_CommandCounter ==
    pc \in { "write", "done" }
        => /\ cmd_buffer.cmd_count = appended + Len(ZEntries) + Len(SKeys)
           /\ ~stats => cmd_buffer.cmd_count = Len(cmd_buffer.buf)

Mergeable(r) == get_type(r) # TYPE_UNSUPPORTED

\* Two commands of the input name the same aggregation target: the same
\* (key, member) of the numeric table or the same key of the set table.
Duplicates(seq) ==
    \E i, j \in 1..Len(seq) :
        /\ i < j
        /\ Mergeable(seq[i])
        /\ get_type(seq[i]) = get_type(seq[j])
        /\ Elem(seq[i], 1).str = Elem(seq[j], 1).str
        /\ get_type(seq[i]) = TYPE_ZINCRBY => Elem(seq[i], 3).str = Elem(seq[j], 3).str

\* C5: at the end of a run the input command count is at least the output
\* command count, and they are equal when no command is mergeable or no
\* two commands name the same target.
C5_InputAtLeastOutput ==
    pc \in { "write", "done" }
        => /\ cmd_count >= cmd_buffer.cmd_count
           /\ ((\A i \in 1..Len(input) : ~Mergeable(input[i])) \/ ~Duplicates(input))
                  => cmd_count = cmd_buffer.cmd_count

\* C6: when cmdBufferAddReply has succeeded on a pass-through command, the
\* last command of the buffer is the encoding of that command, element by
\* element, and the buffer counts one command more.
C6_PassThroughUnchanged ==
    (pc = "process" /\ last.no > 0 /\ last.added /\ last.bret = 0)
        => /\ cmd_buffer.buf # << >>
           /\ cmd_buffer.buf[Len(cmd_buffer.buf)] = EncodingOf(input[last.no])
           /\ cmd_buffer.cmd_count = appended

\* The name is exactly the given word, letter case aside.
SameWord(name, word) ==
    /\ Len(name) = Len(word)
    /\ \A i \in 1..Len(word) : tolower(name[i]) = tolower(word[i])

\* C7: a command is classified ZINCRBY iff its name is "ZINCRBY" (case
\* aside, same length) and it has exactly 4 elements, SADD iff its name is
\* "SADD" and it has more than 2 elements, and unsupported otherwise.
C7_ClassificationExact ==
    pc = "classified"
        => last.type = (IF SameWord(Elem(input[1], 0).str, ZINCRBY_STR) /\ input[1].elements = 4
                        THEN TYPE_ZINCRBY
                        ELSE IF SameWord(Elem(input[1], 0).str, SADD_STR) /\ input[1].elements > 2
                        THEN TYPE_SADD
                        ELSE TYPE_UNSUPPORTED)

\* A decimal integer: an optional sign, then digits only.
ValidNumber(str) ==
    LET start == IF CAt(str, 1) = 45 \/ CAt(str, 1) = 43 THEN 2 ELSE 1
    IN  /\ Len(str) >= start
        /\ \A i \in start..Len(str) : IsDigit(str[i])

\* C8: a ZINCRBY command whose delta is not a number makes cmdHashAdd fail.
C8_MalformedDeltaFails ==
    (last.no > 0 /\ pc # "classified" /\ get_type(input[last.no]) = TYPE_ZINCRBY
       /\ ~ValidNumber(Elem(input[last.no], 2).str))
        => last.ret = -1

\* C9: once cmdHashAdd or cmdBufferAddReply has returned a failure,
\* processBufferFile does not return success and the run does not go on to
\* flush and write.
C9_FailureAbortsRun ==
    addfail => pc \notin { "append", "write", "done" }

\* C10: a cmdHashAdd call that returns -1 leaves both tables as they were.
C10_FailedAddChangesNothing ==
    [][(last'.no = last.no + 1 /\ last'.ret = -1)
          => (cmd_hash'.z_cmds = cmd_hash.z_cmds /\ cmd_hash'.s_cmds = cmd_hash.s_cmds)]_vars

\* The last command processed was classified ZINCRBY and its key or its
\* member is empty.
EmptyNumericAdd ==
    /\ last.no > 0
    /\ last.type = TYPE_ZINCRBY
    /\ (Elem(input[last.no], 1).len = 0 \/ Elem(input[last.no], 3).len = 0)

\* C11: a ZINCRBY command whose key or member is empty is rejected:
\* cmdHashAdd returns -1 and the numeric table holds no entry under an
\* empty key or for an empty member.
C11_EmptyKeyOrMemberRejected ==
    /\ EmptyNumericAdd => last.ret = -1
    /\ \A i \in 1..Len(Nodes(cmd_hash.z_cmds.bucket)) :
           LET key == Nodes(cmd_hash.z_cmds.bucket)[i]
           IN  /\ key.key = << >> => key.bucket = << >>
               /\ \A j \in 1..Len(Nodes(key.bucket)) : Nodes(key.bucket)[j].member # << >>

Range(seq) == { seq[i] : i \in 1..Len(seq) }

\* The (key, member, value) entries of a zHash key node, and of a zHash.
ZPairsOf(key) ==
    [j \in 1..Len(Nodes(key.bucket)) |->
        [key |-> key.key, member |-> Nodes(key.bucket)[j].member,
         value |-> Nodes(key.bucket)[j].value]]

RECURSIVE ZPairs(_, _)
ZPairs(keys, i) ==
    IF i > Len(keys) THEN << >>
    ELSE ZPairsOf(keys[i]) \o ZPairs(keys, i + 1)

\* The values a zHash holds for (key, member): empty when there is no entry.
ZEntryValues(ht, key, member) ==
    { e.value : e \in { p \in Range(ZPairs(Nodes(ht.bucket), 1)) :
                           p.key = key /\ p.member = member } }

\* C12: zHashAdd accepts a delta of zero on a non-empty key and member: when
\* no allocation fails it returns 0, the (key, member) entry exists
\* afterwards, and its value is what it was before the call (zero if the
\* entry is new).
C12_ZeroDeltaAccepted ==
    (call.no > 0 /\ pc = "zhash" /\ CellVal(call.value) = 0 /\ ~call.failed
       /\ call.key # << >> /\ call.member # << >>)
        => /\ call.ret = 0
           /\ ZEntryValues(zhash, call.key, call.member) # { }
           /\ \A v \in ZEntryValues(zhash, call.key, call.member) :
                  \A u \in (IF ZEntryValues(call.before, call.key, call.member) = { }
                            THEN { 0 }
                            ELSE ZEntryValues(call.before, call.key, call.member)) :
                      CellVal(v) = CellVal(u)

\* The commands of a sequence that __get_type classifies as type.
OfType(seq, type) == { r \in Range(seq) : get_type(r) = type }

\* The distinct keys of those commands, and their distinct (key, member)
\* pairs: a ZINCRBY command names one member, an SADD command one per
\* element after the key.
KeysIn(seq, type) == { Elem(r, 1).str : r \in OfType(seq, type) }

PairsIn(seq, type) ==
    UNION { { << Elem(r, 1).str, Elem(r, i).str >> :
                i \in (IF type = TYPE_ZINCRBY THEN { 3 } ELSE 2..(r.elements - 1)) } :
            r \in OfType(seq, type) }

\* A container has exactly one key entry per distinct key byte sequence and
\* one member entry per distinct (key, member) byte sequences of seq.
EntriesMatch(c, seq, type) ==
    /\ Len(Nodes(c.bucket)) = Cardinality(KeysIn(seq, type))
    /\ Len(MemberNodes(Nodes(c.bucket), 1)) = Cardinality(PairsIn(seq, type))

MembersIn(seq, type, key) == { p[2] : p \in { q \in PairsIn(seq, type) : q[1] = key } }

\* C13: after adds that all succeeded, a completed flush emits, after the
\* pass-through commands, exactly one ZINCRBY command for each distinct
\* (key, member) pair added and exactly one SADD command for each distinct
\* key added, that SADD carrying each distinct member of the key exactly
\* once (element count = member count + 2), and nothing else.
C13_OneCommandPerEntry ==
    (pc = "done" /\ ~stats /\ fails = 0)
        => LET pass == Len(SelectSeq(input, IsUnsupported))
               agg == (pass + 1)..Len(outfile)
           IN  /\ Len(outfile) = pass + Cardinality(PairsIn(input, TYPE_ZINCRBY))
                                      + Cardinality(KeysIn(input, TYPE_SADD))
               /\ \A p \in PairsIn(input, TYPE_ZINCRBY) :
                      Cardinality({ i \in agg : /\ NamedAs(outfile[i], ZINCRBY_STR)
                                                /\ outfile[i].argc = 4
                                                /\ outfile[i].bulk[2] = p[1]
                                                /\ outfile[i].bulk[4] = p[2] }) = 1
               /\ \A k \in KeysIn(input, TYPE_SADD) :
                      /\ Cardinality({ i \in agg : /\ NamedAs(outfile[i], SADD_STR)
                                                   /\ outfile[i].bulk[2] = k }) = 1
                      /\ \A i \in agg :
                             (NamedAs(outfile[i], SADD_STR) /\ outfile[i].bulk[2] = k)
                                 => /\ outfile[i].argc
                                         = Cardinality(MembersIn(input, TYPE_SADD, k)) + 2
                                    /\ Len(outfile[i].bulk) = outfile[i].argc
                                    /\ \A m \in MembersIn(input, TYPE_SADD, k) :
                                           Cardinality({ j \in 3..Len(outfile[i].bulk) :
                                                           outfile[i].bulk[j] = m }) = 1

\* C15: from cmdBufferCreate on, through cmdBufferAppend calls that succeed
\* or fail, pos <= size holds in every state and neither pos nor size ever
\* decreases from one state to the next.
C15_LengthWithinCapacity ==
    /\ [](cmd_buffer.pos <= cmd_buffer.size)
    /\ [][/\ cmd_buffer'.pos >= cmd_buffer.pos
          /\ cmd_buffer'.size >= cmd_buffer.size]_vars

\* C15 witness: the buffer has grown beyond its initial capacity, holds
\* data, and its last append failed to grow it.
C15_GrownThenFailed ==
    /\ pc = "buffer"
    /\ call.no > 1
    /\ call.ret = -1
    /\ cmd_buffer.size > INITIAL_ALLOC
    /\ cmd_buffer.pos > 0

\* C16 as stated: a run over an input of zero commands ends without error,
\* the input command counter and the output command counter both zero.
C16_EmptyInputNoError ==
    [][(pc = "write" /\ input = << >>)
          => (pc' = "done" /\ cmd_count' = 0 /\ cmd_buffer'.cmd_count = 0)]_vars

\* C16 amended: a run over an input of zero commands that reaches the end
\* of main has both counters zero and writes nothing; it ends without
\* error in stats mode and with exit status 1 otherwise.
C16_EmptyInputRefusedUnlessStats ==
    [][(pc = "write" /\ input = << >>)
          => /\ cmd_count' = 0
             /\ cmd_buffer'.cmd_count = 0
             /\ outfile' = << >>
             /\ pc' = IF stats THEN "done" ELSE "failed"]_vars

\* C16 witness: outside stats mode a run over no command has flushed its
\* empty tables, without any failed allocation, and has exited with an
\* error.
C16_EmptyRunRefused ==
    /\ pc = "failed"
    /\ ~stats
    /\ input = << >>
    /\ cmd_hash.buf
    /\ fails = 0
    /\ cmd_count = 0
    /\ cmd_buffer.cmd_count = 0

\* C17: the two phases never interleave: while the input is being read no
\* aggregated command has been serialized and nothing has been written to
\* the output, and from the end of the input on no command is read or
\* added to a table and the reply loop is never entered again.
C17_PhasesDoNotInterleave ==
    /\ [](pc = "process"
             => (outfile = << >> /\ ~cmd_hash.buf /\ cmd_hash.cmds = << >>
                   /\ cmd_buffer.cmd_count = appended))
    /\ [][pc # "process"
             => /\ pc' # "process"
                /\ input' = input
                /\ cmd_count' = cmd_count
                /\ cmd_hash'.z_cmds = cmd_hash.z_cmds
                /\ cmd_hash'.s_cmds = cmd_hash.s_cmds]_vars

\* C17 witness: a run over pass-through and mergeable commands has flushed
\* its tables and written its output.
C17_BothPhasesDone ==
    /\ pc = "done"
    /\ ~stats
    /\ cmd_hash.buf
    /\ Len(outfile) > 1
    /\ \E i, j \in 1..Len(input) : IsUnsupported(input[i]) /\ Mergeable(input[j])

\* Where the SADD commands of a sequence name member m for key: command
\* number and element index.
Occurrences(seq, key, m) ==
    { p \in (1..Len(seq)) \X (2..MaxElements) :
        /\ get_type(seq[p[1]]) = TYPE_SADD
        /\ Elem(seq[p[1]], 1).str = key
        /\ p[2] < seq[p[1]].elements
        /\ Elem(seq[p[1]], p[2]).str = m }

Earlier(p, q) == p[1] < q[1] \/ (p[1] = q[1] /\ p[2] < q[2])

\* m1 was first added to key before m2 was.
AddedBefore(seq, key, m1, m2) ==
    \E p \in Occurrences(seq, key, m1) : \A q \in Occurrences(seq, key, m2) : Earlier(p, q)

\* The SADD commands a completed run wrote after the pass-through commands.
SaddOut ==
    { i \in (Len(SelectSeq(input, IsUnsupported)) + 1)..Len(outfile) :
        NamedAs(outfile[i], SADD_STR) }

TwoSadds == << Sadd(B(115), << B(97), B(98) >>), Sadd(B(115), << B(98), B(99) >>) >>

\* C18 as stated: for SADD s a b then SADD s b c the output is the one
\* command SADD s a b c, and in general the members of a flushed SADD
\* command appear in the order in which they were first added.
C18_MembersInFirstAddedOrder ==
    (pc = "done" /\ ~stats /\ fails = 0)
        => /\ input = TwoSadds
                => outfile = << WireCmd(5, << SADD_STR, B(115), B(97), B(98), B(99) >>) >>
           /\ \A i \in SaddOut :
                  \A j1, j2 \in 3..Len(outfile[i].bulk) :
                      j1 < j2 => AddedBefore(input, outfile[i].bulk[2],
                                             outfile[i].bulk[j1], outfile[i].bulk[j2])

\* C18 amended: for SADD s a b then SADD s b c the output is the one
\* command SADD s a b c, and in general the members of a flushed SADD
\* command appear in ascending order of their bucket in the key's member
\* table, members of one bucket in the order in which they were first
\* added (checked for the members the input names and, for the order
\* within a bucket, when no allocation has failed).
C18_MembersInBucketOrder ==
    (pc = "done" /\ ~stats)
        => /\ (input = TwoSadds /\ fails = 0)
                => outfile = << WireCmd(5, << SADD_STR, B(115), B(97), B(98), B(99) >>) >>
           /\ \A i \in SaddOut :
                  \A j1, j2 \in 3..Len(outfile[i].bulk) :
                      (/\ j1 < j2
                       /\ outfile[i].bulk[j1] \in MembersIn(input, TYPE_SADD, outfile[i].bulk[2])
                       /\ outfile[i].bulk[j2] \in MembersIn(input, TYPE_SADD, outfile[i].bulk[2]))
                          => LET b1 == GET_BUCKET(outfile[i].bulk[j1],
                                                  Len(outfile[i].bulk[j1]), MHASH_SIZE)
                                 b2 == GET_BUCKET(outfile[i].bulk[j2],
                                                  Len(outfile[i].bulk[j2]), MHASH_SIZE)
                             IN  \/ b1 < b2
                                 \/ /\ b1 = b2
                                    /\ fails = 0
                                          => AddedBefore(input, outfile[i].bulk[2],
                                                         outfile[i].bulk[j1],
                                                         outfile[i].bulk[j2])

\* C18 witness: a completed run over SADD s a b then SADD s b c.
C18_TwoSaddsFlushed ==
    /\ pc = "done"
    /\ ~stats
    /\ fails = 0
    /\ input = TwoSadds
    /\ Len(outfile) = 1

\* A sequence without its repeats, first occurrences kept in order.
RECURSIVE Dedup(_, _, _)
Dedup(seq, i, acc) ==
    IF i > Len(seq) THEN acc
    ELSE Dedup(seq, i + 1, IF seq[i] \in Range(acc) THEN acc ELSE Append(acc, seq[i]))

\* The byte strings of a sequence bucket by bucket, ascending, each bucket
\* in the order of the sequence.
RECURSIVE ByBucketFrom(_, _, _)
ByBucketFrom(seq, size, idxs) ==
    IF idxs = << >> THEN << >>
    ELSE LET InHead(x) == GET_BUCKET(x, Len(x), size) = Head(idxs)
         IN  SelectSeq(seq, InHead) \o ByBucketFrom(seq, size, Tail(idxs))

ByBucket(seq, size) ==
    ByBucketFrom(seq, size, Ascending({ GET_BUCKET(x, Len(x), size) : x \in Range(seq) }))

\* The keys of the commands of a type in input order, and the members the
\* commands of that type name for a key, in input order.
RECURSIVE KeySeq(_, _, _)
KeySeq(seq, type, i) ==
    IF i > Len(seq) THEN << >>
    ELSE (IF get_type(seq[i]) = type THEN << Elem(seq[i], 1).str >> ELSE << >>)
         \o KeySeq(seq, type, i + 1)

RECURSIVE MemberSeq(_, _, _, _)
MemberSeq(seq, type, key, i) ==
    IF i > Len(seq) THEN << >>
    ELSE (IF get_type(seq[i]) = type /\ Elem(seq[i], 1).str = key
          THEN (IF type = TYPE_ZINCRBY THEN << Elem(seq[i], 3).str >>
                ELSE [j \in 1..(seq[i].elements - 2) |-> Elem(seq[i], j + 1).str])
          ELSE << >>)
         \o MemberSeq(seq, type, key, i + 1)

\* The order the input alone gives the aggregated commands: keys by outer
\* bucket and first insertion, under each key its members by inner bucket
\* and first insertion; a ZINCRBY command is named by its key and member,
\* an SADD command by its key and members.
MembersInOrder(seq, type, key) ==
    ByBucket(Dedup(MemberSeq(seq, type, key, 1), 1, << >>), MHASH_SIZE)

KeysInOrder(seq, type) == ByBucket(Dedup(KeySeq(seq, type, 1), 1, << >>), KHASH_SIZE)

RECURSIVE ExpectedZincrby(_, _, _)
ExpectedZincrby(seq, keys, i) ==
    IF i > Len(keys) THEN << >>
    ELSE [j \in 1..Len(MembersInOrder(seq, TYPE_ZINCRBY, keys[i])) |->
             << ZINCRBY_STR, keys[i], MembersInOrder(seq, TYPE_ZINCRBY, keys[i])[j] >>]
         \o ExpectedZincrby(seq, keys, i + 1)

ExpectedSadd(seq, keys) ==
    [i \in 1..Len(keys) |->
        << SADD_STR, keys[i] >> \o MembersInOrder(seq, TYPE_SADD, keys[i])]

ExpectedOrder(seq) ==
    ExpectedZincrby(seq, KeysInOrder(seq, TYPE_ZINCRBY), 1)
        \o ExpectedSadd(seq, KeysInOrder(seq, TYPE_SADD))

\* What an emitted aggregated command names.
NamesOf(w) ==
    IF NamedAs(w, ZINCRBY_STR) /\ Len(w.bulk) = 4
    THEN << w.bulk[1], w.bulk[2], w.bulk[4] >>
    ELSE w.bulk

\* C19: entries are linked at the tail of their chain and the flush visits
\* outer buckets in ascending index, each chain from its head, and under
\* each key the inner buckets likewise, so that the aggregated commands a
\* completed run emits after the pass-through commands it appended, and
\* their order, are given by the input alone.
C19_OrderFromInputAlone ==
    (pc = "done" /\ ~stats)
        => /\ Len(outfile) = appended + Len(ExpectedOrder(input))
           /\ \A i \in 1..Len(ExpectedOrder(input)) :
                  NamesOf(outfile[appended + i]) = ExpectedOrder(input)[i]

\* C20: cmdBufferAppend grows the buffer only when pos + len > size, the
\* new capacity then being 2 * (pos + len) if pos + len < 1048576 and
\* (pos + len) + 1048576 otherwise; a successful append adds len to pos and
\* the given count to the command counter, and a failed growth leaves pos,
\* size and the command counter as they were.
C20_GrowthArithmetic ==
    (pc = "buffer" /\ call.no > 0)
        => LET needed == call.before.pos + call.len
           IN  IF call.ret = 0
               THEN /\ cmd_buffer.pos = needed
                    /\ cmd_buffer.cmd_count = call.before.cmd_count + call.cmd_count
                    /\ cmd_buffer.size =
                          (IF needed <= call.before.size THEN call.before.size
                           ELSE IF needed < 1048576 THEN 2 * needed
                           ELSE needed + 1048576)
               ELSE /\ needed > call.before.size
                    /\ cmd_buffer.pos = call.before.pos
                    /\ cmd_buffer.size = call.before.size
                    /\ cmd_buffer.cmd_count = call.before.cmd_count

\* C20 witness: a buffer already holding data has grown by the ceiling
\* amount, its needed length having reached 1 MiB.
C20_GrownPastCeiling ==
    /\ pc = "buffer"
    /\ call.no > 1
    /\ call.ret = 0
    /\ call.before.pos > 0
    /\ call.before.pos + call.len >= 1048576
    /\ cmd_buffer.size > call.before.size
    /\ call.cmd_count > 0

RECURSIVE SumCounts(_, _)
SumCounts(keys, i) ==
    IF i > Len(keys) THEN 0
    ELSE keys[i].count + SumCounts(keys, i + 1)

\* The counters of a container match its structure, every key has its
\* member table and every entry its byte copy.
WellFormed(c) ==
    /\ c.keys = Len(Nodes(c.bucket))
    /\ c.members = SumCounts(Nodes(c.bucket), 1)
    /\ \A i \in 1..Len(Nodes(c.bucket)) :
           LET key == Nodes(c.bucket)[i]
           IN  /\ ~key.freed
               /\ key.key # NULLp
               /\ key.btab
               /\ key.count = Len(Nodes(key.bucket))
               /\ \A j \in 1..Len(Nodes(key.bucket)) : Nodes(key.bucket)[j].member # NULLp

\* C21: after any sequence of cmdHashAdd calls, failed ones included, each
\* container's keys is the number of its key entries, each key's count the
\* number of its member entries, members the sum of the counts, and every
\* key has an allocated member table and every entry a stored copy.
C21_CountersMatchStructure ==
    pc \in { "process", "append", "write", "done" }
        => WellFormed(cmd_hash.z_cmds) /\ WellFormed(cmd_hash.s_cmds)


\* C22: in the numeric-only aggregator, over any sequence of
\* zHashGetCommands calls (failing ones included) followed by zHashFree,
\* every allocation of the internal command buffer is released at most
\* once, and none is written or resized after its release.
C22_BufferReleasedOnce ==
    pc \in { "zhash", "freed" }
        => \A a \in DOMAIN zhash.heap :
               zhash.heap[a].frees <= 1 /\ ~zhash.heap[a].stale

=============================================================================
